---- MODULE Spec2Model ----
(***************************************************************************)
(* State-machine model of the thumbnail cache and the image discoverer of  *)
(* src/src/main.rs (pic_url): serve_thumbnail / ensure_thumbnail /         *)
(* generate_thumbnail on one side, collect_images / api_images on the      *)
(* other, running as concurrent request handlers over one filesystem.      *)
(***************************************************************************)
EXTENDS Integers, Sequences, FiniteSets, TLC

(***************************************************************************)
(* Bounds of the model.                                                    *)
(***************************************************************************)
\* the filesystem clock runs over 0..MaxTime
MaxTime == 1
\* source images are rewritten at most until version MaxVer
MaxVer == 2
\* an encoded thumbnail reaches the file in NChunks write calls
NChunks == 2
\* widths and heights of the exhaustive part of the dimension check
MaxSide == 12
\* the symbolic links the operating system follows while it resolves one
\* path, before it gives up with ELOOP (40 on Linux)
MaxLinks == 2

(***************************************************************************)
(* Program constants.                                                      *)
(***************************************************************************)
THUMB_SIZE == 200

\* the directory name of format!("{}/.thumbnails", pic_dir)
ThumbDirName == ".thumbnails"

\* the directory name collect_images refuses to descend into
SkipDirName == ".thumbnails"

(***************************************************************************)
(* File names.  A name is a string; Spelling gives its characters, which   *)
(* is what Path::extension and to_lowercase work on.                       *)
(***************************************************************************)
Spelling ==
    ( "pics"        :> <<"p", "i", "c", "s">> ) @@
    ( "a"           :> <<"a">> ) @@
    ( "cat.png"     :> <<"c", "a", "t", ".", "p", "n", "g">> ) @@
    ( "B.PNG"       :> <<"B", ".", "P", "N", "G">> ) @@
    ( "notes.txt"   :> <<"n", "o", "t", "e", "s", ".", "t", "x", "t">> ) @@
    ( "missing.jpg" :> <<"m", "i", "s", "s", "i", "n", "g", ".", "j", "p", "g">> ) @@
    ( "README"      :> <<"R", "E", "A", "D", "M", "E">> ) @@
    ( ".png"        :> <<".", "p", "n", "g">> ) @@
    ( ".thumbnails" :> <<".", "t", "h", "u", "m", "b", "n", "a", "i", "l", "s">> ) @@
    ( ".."          :> <<".", ".">> ) @@
    ( ".hidden"     :> <<".", "h", "i", "d", "d", "e", "n">> ) @@
    ( "loop"        :> <<"l", "o", "o", "p">> ) @@
    ( "b"           :> <<"b">> )

Upper == <<"A", "B", "C", "D", "E", "F", "G", "H", "I", "J", "K", "L", "M",
           "N", "O", "P", "Q", "R", "S", "T", "U", "V", "W", "X", "Y", "Z">>

Lower == <<"a", "b", "c", "d", "e", "f", "g", "h", "i", "j", "k", "l", "m",
           "n", "o", "p", "q", "r", "s", "t", "u", "v", "w", "x", "y", "z">>

\* one character of str::to_lowercase (ASCII range)
ToLowerChar(c) ==
    IF \E i \in 1..Len(Upper) : Upper[i] = c
    THEN Lower[CHOOSE i \in 1..Len(Upper) : Upper[i] = c]
    ELSE c

ToLower(s) == [i \in 1..Len(s) |-> ToLowerChar(s[i])]

\* the byte value of a character, the order String::cmp sorts by
CharCode(c) ==
    IF \E i \in 1..Len(Upper) : Upper[i] = c
    THEN 64 + (CHOOSE i \in 1..Len(Upper) : Upper[i] = c)
    ELSE IF \E i \in 1..Len(Lower) : Lower[i] = c
    THEN 96 + (CHOOSE i \in 1..Len(Lower) : Lower[i] = c)
    ELSE IF c = "." THEN 46
    ELSE IF c = "/" THEN 47
    ELSE 0

\* positions of the dots of a spelled name
DotsOf(s) == {i \in 1..Len(s) : s[i] = "."}

Max(S) == CHOOSE x \in S : \A y \in S : y <= x

NoExt == <<"-none-">>

\* Path::extension of a file name: the part after the last dot; none when
\* there is no dot or when the only dot is the leading one
ExtensionOf(name) ==
    LET s == Spelling[name]
        d == DotsOf(s)
    IN  IF d = {} \/ Max(d) = 1
        THEN NoExt
        ELSE SubSeq(s, Max(d) + 1, Len(s))

ImageExts ==
    { <<"j", "p", "g">>, <<"j", "p", "e", "g">>, <<"p", "n", "g">>,
      <<"g", "i", "f">>, <<"w", "e", "b", "p">>, <<"b", "m", "p">>,
      <<"i", "c", "o">> }

(***************************************************************************)
(* Paths.  A path is the sequence of its components below the filesystem   *)
(* root; a relative path is the sequence of components of the request.     *)
(***************************************************************************)
\* the configured image directory (AppConfig.pic_dir)
PicDir == <<"pics">>

\* AppConfig::new: thumb_dir = format!("{}/.thumbnails", pic_dir)
ThumbDirOf(pic_dir) == pic_dir \o <<ThumbDirName>>

ThumbDir == ThumbDirOf(PicDir)

\* the first component of a path that begins with '/'
RootMark == "/"

IsAbsolute(path) == path # <<>> /\ path[1] = RootMark

\* Path::join: an absolute operand replaces the base
Join(base, path) == IF IsAbsolute(path) THEN Tail(path) ELSE base \o path

Parent(path) == SubSeq(path, 1, Len(path) - 1)

\* the component that names the directory above
DotDot == ".."

\* the file or directory the operating system reaches by a path: a ".."
\* component steps back to the directory above (no symbolic links)
RECURSIVE Walk(_, _)
Walk(at, rest) ==
    IF rest = <<>> THEN at
    ELSE IF Head(rest) = DotDot
    THEN Walk(IF at = <<>> THEN at ELSE Parent(at), Tail(rest))
    ELSE Walk(Append(at, Head(rest)), Tail(rest))

Resolve(path) == Walk(<<>>, path)

FileName(path) == path[Len(path)]

IsPrefix(p, q) == Len(p) <= Len(q) /\ SubSeq(q, 1, Len(p)) = p

\* Path::strip_prefix
StripPrefix(path, base) == SubSeq(path, Len(base) + 1, Len(path))

IsImageFileLax(path) ==
    /\ path # <<>>
    /\ ExtensionOf(FileName(path)) \in ImageExts

\* is_image_file: the lower-cased extension is in the allow-list
IsImageFile(path) ==
    /\ path # <<>>
    /\ ToLower(ExtensionOf(FileName(path))) \in ImageExts

GetThumbnailPathFlat(thumb_dir, relative_path) ==
    Join(thumb_dir, <<FileName(relative_path)>>)

\* get_thumbnail_path
GetThumbnailPath(thumb_dir, relative_path) == Join(thumb_dir, relative_path)

(***************************************************************************)
(* Thumbnail dimensions (generate_thumbnail, lines 52-58).  The code       *)
(* computes in f32: a positive f32 is the pair <<m, e>> with               *)
(* 2^23 <= m < 2^24 standing for m * 2^e, every operation rounding to      *)
(* nearest, ties to even.  Operands are kept below 2^31.                   *)
(***************************************************************************)
RECURSIVE Log2Floor(_)
Log2Floor(n) == IF n <= 1 THEN 0 ELSE 1 + Log2Floor(n \div 2)

\* den * 2^k <= num
ScaledLeq(den, k, num) ==
    IF k >= 0 THEN den * 2^k <= num ELSE den <= num * 2^(0 - k)

\* 23 steps of binary long division: quotient bits and running remainder
RECURSIVE DivBits(_, _, _, _)
DivBits(q, r, d, i) ==
    IF i = 0 THEN <<q, r>>
    ELSE IF 2 * r >= d THEN DivBits(2 * q + 1, 2 * r - d, d, i - 1)
    ELSE DivBits(2 * q, 2 * r, d, i - 1)

\* round to nearest even given the kept mantissa q and whether the dropped
\* part is above (1), at (0) or below (-1) one half of the last place
RoundEven(q, e, cmp) ==
    LET up == cmp = 1 \/ (cmp = 0 /\ q % 2 = 1)
        q1 == IF up THEN q + 1 ELSE q
    IN  IF q1 = 2^24 THEN <<2^23, e + 1>> ELSE <<q1, e>>

Cmp(x, y) == IF x > y THEN 1 ELSE IF x = y THEN 0 ELSE -1

\* (num as f32) / (den as f32) for integers 1 <= num, den < 2^12
F32Div(num, den) ==
    LET k0 == Log2Floor(num) - Log2Floor(den)
        k  == IF ScaledLeq(den, k0, num) THEN k0 ELSE k0 - 1
        n0 == IF k >= 0 THEN num ELSE num * 2^(0 - k)
        d0 == IF k >= 0 THEN den * 2^k ELSE den
        qr == DivBits(1, n0 - d0, d0, 23)
    IN  RoundEven(qr[1], k - 23, Cmp(2 * qr[2], d0))

\* (n as f32) * f for an integer 1 <= n < 2^11
F32MulInt(n, f) ==
    LET a  == f[1] \div 4096
        b  == f[1] % 4096
        hi == n * a + (n * b) \div 4096
        lo == (n * b) % 4096
        s  == Log2Floor(hi) + 1 - 12
        q  == hi * 2^(12 - s) + lo \div 2^s
        r  == lo % 2^s
    IN  IF s = 0 THEN <<q, f[2]>>
        ELSE RoundEven(q, f[2] + s, Cmp(2 * r, 2^s))

\* f as u32: truncation toward zero
F32ToU32(f) ==
    IF f[2] >= 0 THEN f[1] * 2^f[2]
    ELSE IF 0 - f[2] >= 31 THEN 0
    ELSE f[1] \div 2^(0 - f[2])

MaxOf(x, y) == IF x >= y THEN x ELSE y

\* lines 54-56: the box handed to resize
TargetBox(width, height) ==
    LET ratio == F32Div(THUMB_SIZE, MaxOf(width, height))
    IN  << F32ToU32(F32MulInt(width, ratio)),
           F32ToU32(F32MulInt(height, ratio)) >>

\* f64::round of num / den, computed by the library in f64: an exact half
\* rounds away from zero unless the f64 quotient fell just below it
RoundDiv(num, den) ==
    LET down == (2 * num + den) \div (2 * den)
    IN  IF (2 * num) % den = 0 /\ ((2 * num) \div den) % 2 = 1
        THEN {down - 1, down}
        ELSE {down}

\* line 58, DynamicImage::resize: the largest size of the source's aspect
\* ratio that fits the box nwidth x nheight, each side at least 1
ResizeDimensions(width, height, nwidth, nheight) ==
    IF nwidth * height <= nheight * width
    THEN { << MaxOf(nwidth, 1), MaxOf(nh, 1) >> :
              nh \in RoundDiv(height * nwidth, width) }
    ELSE { << MaxOf(nw, 1), MaxOf(nheight, 1) >> :
              nw \in RoundDiv(width * nheight, height) }

\* the sizes generate_thumbnail can give the thumbnail of a width x height
\* image (one size, two where the library rounds an exact half)
ThumbDims(width, height) ==
    LET box == TargetBox(width, height)
    IN  ResizeDimensions(width, height, box[1], box[2])

(***************************************************************************)
(* Files.  The content of a file is the sequence of the chunks written to  *)
(* it; a chunk of an encoded image carries the image it encodes (the       *)
(* version of the picture and its size).                                   *)
(***************************************************************************)
Junk == [ver |-> 0, w |-> 0, h |-> 0]

Encode(image) == [i \in 1..NChunks |-> image]

\* image::open succeeds on the whole, unmixed encoding of one image
Decodable(data) ==
    /\ Len(data) = NChunks
    /\ data[1].ver > 0
    /\ \A i \in 1..Len(data) : data[i] = data[1]

\* a directory; readable says whether fs::read_dir of it succeeds
DirEntry == [kind |-> "dir", mtime |-> 0, data |-> <<>>, readable |-> TRUE]

FileEntry(mtime, data) ==
    [kind |-> "file", mtime |-> mtime, data |-> data, readable |-> TRUE]

\* a symbolic link; its data is the path it points to
LinkEntry(target) ==
    [kind |-> "link", mtime |-> 0, data |-> target, readable |-> TRUE]

\* the request handlers that run concurrently
Procs == {1, 2}

\* the relative paths requested of /thumb/{path}
RelPaths ==
    { <<"a", "cat.png">>, <<"B.PNG">>, <<"notes.txt">>, <<"missing.jpg">>,
      <<"README">>, <<".png">>, <<RootMark, "pics", "B.PNG">> }

\* the requests each handler is given: the second one competes with the
\* first for the one thumbnail that can be generated
Requests(p) == IF p = 1 THEN RelPaths ELSE { <<"a", "cat.png">> }

\* the source file the environment rewrites, touches, removes and restores
Sources == { PicDir \o <<"a", "cat.png">> }

NoImage == Junk

NoResult == [status |-> "none", path |-> <<>>]

\* no walk is going on
NoWalk == [state |-> "idle", stack |-> <<>>, images |-> <<>>, dirs |-> <<>>]

VARIABLES
    fs,        \* the filesystem: existing path -> [kind, mtime, data]
    now,       \* the filesystem clock
    nextVer,   \* the version the next rewrite of a source gives it
    pc,        \* where each handler stands in serve_thumbnail
    rel,       \* relative_path of each handler
    img,       \* the resized image a handler holds in memory
    pos,       \* the chunks of it the handler has written
    ret,       \* the outcome of each handler's request: status and path
    listing,   \* the result of the last discover
    walk       \* the recursion of collect_images, taken step by step

vars == <<fs, now, nextVer, pc, rel, img, pos, ret, listing, walk>>

\* Path::exists follows a symbolic link: a dangling link does not exist
Exists(path) ==
    /\ path \in DOMAIN fs
    /\ fs[path].kind = "link" => fs[path].data \in DOMAIN fs

IsDir(path) == Exists(path) /\ fs[path].kind = "dir"

IsFile(path) == Exists(path) /\ fs[path].kind = "file"

\* the filesystem with one entry set
Put(f, path, entry) == [q \in DOMAIN f \cup {path} |-> IF q = path THEN entry ELSE f[q]]

\* the file src_path of handler p names
SrcPath(p) == Resolve(Join(PicDir, rel[p]))

\* the file thumb_path of handler p names
ThumbPath(p) == Resolve(GetThumbnailPath(ThumbDir, rel[p]))

(***************************************************************************)
(* discover: collect_images followed by the sort of api_images and index.  *)
(***************************************************************************)
\* the entries of a directory
Entries(dir) == {q \in DOMAIN fs : q # <<>> /\ Parent(q) = dir}

ReadDirAll(dir) == Entries(dir)

\* line 128: fs::read_dir gives the entries of a directory that can be read;
\* when it fails the walk takes nothing from the directory
ReadDir(dir) == IF IsDir(dir) /\ fs[dir].readable THEN Entries(dir) ELSE {}

\* line 132: the directories collect_images descends into
DescendsAll(path) == TRUE

DescendsBelowTop(path) == Len(path) > 2 \/ FileName(path) # SkipDirName

Descends(path) == FileName(path) # SkipDirName

\* collect_images: the relative paths pushed while walking dir
RECURSIVE CollectImages(_, _)
CollectImages(dir, base) ==
    UNION { IF IsDir(q)
            THEN (IF Descends(q) THEN CollectImages(q, base) ELSE {})
            ELSE IF IsImageFile(q) /\ IsPrefix(base, q)
            THEN {StripPrefix(q, base)}
            ELSE {}
            : q \in ReadDir(dir) }

\* to_string_lossy of a relative path: its components joined by '/'
RECURSIVE PathString(_)
PathString(path) ==
    IF path = <<>> THEN <<>>
    ELSE IF Len(path) = 1 THEN Spelling[path[1]]
    ELSE Spelling[path[1]] \o <<"/">> \o PathString(Tail(path))

\* String::cmp: byte-wise lexicographic order
RECURSIVE StrLess(_, _)
StrLess(s, t) ==
    IF t = <<>> THEN FALSE
    ELSE IF s = <<>> THEN TRUE
    ELSE IF CharCode(s[1]) # CharCode(t[1]) THEN CharCode(s[1]) < CharCode(t[1])
    ELSE StrLess(Tail(s), Tail(t))

RECURSIVE InsertSorted(_, _)
InsertSorted(x, seq) ==
    IF seq = <<>> THEN <<x>>
    ELSE IF StrLess(PathString(seq[1]), PathString(x))
    THEN <<seq[1]>> \o InsertSorted(x, Tail(seq))
    ELSE <<x>> \o seq

SortNone(seq) == seq

\* Vec::sort of the collected paths
RECURSIVE Sort(_)
Sort(seq) == IF seq = <<>> THEN <<>> ELSE InsertSorted(seq[1], Sort(Tail(seq)))

\* the orders in which the filesystem can enumerate a set of paths
Orders(S) ==
    {o \in [1..Cardinality(S) -> S] :
        \A i, j \in 1..Cardinality(S) : i # j => o[i] # o[j]}

DiscoverTouching ==
    /\ \E o \in Orders(CollectImages(PicDir, PicDir)) : listing' = Sort(o)
    /\ fs' = [fs EXCEPT ![PicDir].mtime = 1 - fs[PicDir].mtime]
    /\ UNCHANGED <<now, nextVer, pc, rel, img, pos, ret, walk>>

\* api_images / index, lines 146-149 and 175-178
Discover ==
    /\ \E o \in Orders(CollectImages(PicDir, PicDir)) : listing' = Sort(o)
    /\ UNCHANGED <<fs, now, nextVer, pc, rel, img, pos, ret, walk>>

(***************************************************************************)
(* resolve: serve_thumbnail, ensure_thumbnail, generate_thumbnail.         *)
(***************************************************************************)
\* the size of the picture a rewrite of a source puts there: the size the
\* picture had, 300x600 when there is none
SourceSize(path) ==
    IF IsFile(path) /\ Decodable(fs[path].data)
    THEN <<fs[path].data[1].w, fs[path].data[1].h>>
    ELSE <<300, 600>>

Picture(ver, size) == [ver |-> ver, w |-> size[1], h |-> size[2]]

InitWith(size) ==
    /\ fs = ( <<>> :> DirEntry ) @@
            ( PicDir :> DirEntry ) @@
            ( (PicDir \o <<"a">>) :> DirEntry ) @@
            ( (PicDir \o <<"a", "cat.png">>) :>
                FileEntry(0, Encode(Picture(1, size))) ) @@
            ( (PicDir \o <<"B.PNG">>) :> FileEntry(0, <<Junk>>) ) @@
            ( (PicDir \o <<".png">>) :>
                FileEntry(0, Encode(Picture(1, <<7, 3>>))) ) @@
            ( (PicDir \o <<"notes.txt">>) :> FileEntry(0, <<Junk>>) ) @@
            ( (PicDir \o <<"README">>) :> FileEntry(0, <<Junk>>) ) @@
            ( ThumbDir :> DirEntry )
    /\ now = 0
    /\ nextVer = 2
    /\ pc = [p \in Procs |-> "idle"]
    /\ rel = [p \in Procs |-> <<>>]
    /\ img = [p \in Procs |-> NoImage]
    /\ pos = [p \in Procs |-> 0]
    /\ ret = [p \in Procs |-> NoResult]
    /\ listing = <<>>
    /\ walk = NoWalk

\* main, lines 995-1006: the image directory and its cache directory exist
\* when the server starts; the gallery holds a 300x600 picture
Init == InitWith(<<300, 600>>)

\* line 102: the source passes serve_thumbnail's precondition
AcceptsByName(src_path) == IsImageFile(src_path)

Accepts(src_path) == Exists(Resolve(src_path)) /\ IsImageFile(src_path)

\* lines 99-104: a request arrives; 404 unless the source exists and is an image
Start(p, r) ==
    /\ pc[p] \in {"idle", "done"}
    /\ rel' = [rel EXCEPT ![p] = r]
    /\ img' = [img EXCEPT ![p] = NoImage]
    /\ pos' = [pos EXCEPT ![p] = 0]
    /\ IF Accepts(Join(PicDir, r))
       THEN /\ pc' = [pc EXCEPT ![p] = "ensure"]
            /\ ret' = [ret EXCEPT ![p] = NoResult]
       ELSE /\ pc' = [pc EXCEPT ![p] = "done"]
            /\ ret' = [ret EXCEPT ![p] = [status |-> "NotFound", path |-> <<>>]]
    /\ UNCHANGED <<fs, now, nextVer, listing, walk>>

FreshStrict(thumb_time, src_time) == thumb_time > src_time

FreshIfExists(thumb_time, src_time) == TRUE

\* line 78: the timestamp comparison
Fresh(thumb_time, src_time) == thumb_time >= src_time

\* lines 75-83: the cached thumbnail can be returned as it is
CacheHit(thumb_path, src_path) ==
    /\ Exists(thumb_path)
    /\ Exists(src_path)
    /\ Fresh(fs[thumb_path].mtime, fs[src_path].mtime)

EnsureSerialized(p) ==
    /\ pc[p] = "ensure"
    /\ \A q \in Procs \ {p} :
          ~(rel[q] = rel[p] /\ pc[q] \in {"decode", "mkdir", "create", "write"})
    /\ IF CacheHit(ThumbPath(p), SrcPath(p))
       THEN pc' = [pc EXCEPT ![p] = "hit"]
       ELSE pc' = [pc EXCEPT ![p] = "decode"]
    /\ UNCHANGED <<fs, now, nextVer, rel, img, pos, ret, listing, walk>>

\* lines 73-83: the validity check of ensure_thumbnail
Ensure(p) ==
    /\ pc[p] = "ensure"
    /\ IF CacheHit(ThumbPath(p), SrcPath(p))
       THEN pc' = [pc EXCEPT ![p] = "hit"]
       ELSE pc' = [pc EXCEPT ![p] = "decode"]
    /\ UNCHANGED <<fs, now, nextVer, rel, img, pos, ret, listing, walk>>

FailNotFound(p) ==
    /\ pc' = [pc EXCEPT ![p] = "done"]
    /\ ret' = [ret EXCEPT ![p] = [status |-> "NotFound", path |-> <<>>]]
    /\ img' = [img EXCEPT ![p] = NoImage]
    /\ pos' = [pos EXCEPT ![p] = 0]

\* lines 85-91 and 112-113: generation failed, the request ends with 500
Fail(p) ==
    /\ pc' = [pc EXCEPT ![p] = "done"]
    /\ ret' = [ret EXCEPT ![p] =
                [status |-> "GenerationFailed", path |-> Join(PicDir, rel[p])]]
    /\ img' = [img EXCEPT ![p] = NoImage]
    /\ pos' = [pos EXCEPT ![p] = 0]

\* lines 51-58: image::open of the source, then the resize in memory
Decode(p) ==
    /\ pc[p] = "decode"
    /\ IF IsFile(SrcPath(p)) /\ Decodable(fs[SrcPath(p)].data)
       THEN LET src == fs[SrcPath(p)].data[1]
            IN  /\ \E d \in ThumbDims(src.w, src.h) :
                      img' = [img EXCEPT ![p] = Picture(src.ver, d)]
                /\ pc' = [pc EXCEPT ![p] = "mkdir"]
                /\ ret' = ret
                /\ pos' = pos
       ELSE Fail(p)
    /\ UNCHANGED <<fs, now, nextVer, rel, listing, walk>>

\* the directories above a path
Ancestors(path) == {SubSeq(path, 1, n) : n \in 0..(Len(path) - 1)}

\* the directories create_dir_all of the parent of thumb_path makes sure of
ParentDirs(p) ==
    {Resolve(d) : d \in Ancestors(GetThumbnailPath(ThumbDir, rel[p]))}

\* lines 60-62: fs::create_dir_all of the parent of the thumbnail path
Mkdir(p) ==
    /\ pc[p] = "mkdir"
    /\ IF \E d \in ParentDirs(p) : IsFile(d)
       THEN /\ Fail(p)
            /\ fs' = fs
       ELSE /\ fs' = [q \in DOMAIN fs \cup ParentDirs(p) |->
                        IF q \in DOMAIN fs THEN fs[q] ELSE DirEntry]
            /\ pc' = [pc EXCEPT ![p] = "create"]
            /\ UNCHANGED <<ret, img, pos>>
    /\ UNCHANGED <<now, nextVer, rel, listing, walk>>

\* line 61: fs::create_dir_all fails (no permission, no space)
MkdirFail(p) ==
    /\ pc[p] = "mkdir"
    /\ Fail(p)
    /\ UNCHANGED <<fs, now, nextVer, rel, listing, walk>>

\* line 64, first half: File::create makes or truncates the thumbnail file
Create(p) ==
    /\ pc[p] = "create"
    /\ IF IsDir(ThumbPath(p)) \/ ~IsDir(Parent(ThumbPath(p)))
       THEN /\ Fail(p)
            /\ fs' = fs
       ELSE /\ fs' = Put(fs, ThumbPath(p), FileEntry(now, <<>>))
            /\ pc' = [pc EXCEPT ![p] = "write"]
            /\ UNCHANGED <<ret, img, pos>>
    /\ UNCHANGED <<now, nextVer, rel, listing, walk>>

\* the content of a file after a chunk is written at offset at (0-based)
WriteAt(data, at, chunk) ==
    [i \in 1..MaxOf(Len(data), at + 1) |->
        IF i = at + 1 THEN chunk
        ELSE IF i <= Len(data) THEN data[i]
        ELSE Junk]

\* line 64, second half: the encoder writes its next chunk at the handler's
\* own file offset; after the last one generate_thumbnail returns Ok
Write(p) ==
    /\ pc[p] = "write"
    /\ pos[p] < NChunks
    /\ fs' = Put(fs, ThumbPath(p),
                 FileEntry(now, WriteAt(fs[ThumbPath(p)].data, pos[p], img[p])))
    /\ IF pos[p] + 1 = NChunks
       THEN /\ pc' = [pc EXCEPT ![p] = "made"]
            /\ ret' = ret
            /\ img' = [img EXCEPT ![p] = NoImage]
            /\ pos' = [pos EXCEPT ![p] = 0]
       ELSE /\ pos' = [pos EXCEPT ![p] = pos[p] + 1]
            /\ UNCHANGED <<pc, ret, img>>
    /\ UNCHANGED <<now, nextVer, rel, listing, walk>>

WriteFailCleaning(p) ==
    /\ pc[p] = "write"
    /\ Fail(p)
    /\ fs' = [q \in DOMAIN fs \ {ThumbPath(p)} |-> fs[q]]
    /\ UNCHANGED <<now, nextVer, rel, listing, walk>>

\* line 64: the encoder or a write fails after the file was created
WriteFail(p) ==
    /\ pc[p] = "write"
    /\ Fail(p)
    /\ UNCHANGED <<fs, now, nextVer, rel, listing, walk>>

\* lines 79, 86 and 106-111: ensure_thumbnail returned the thumbnail path
\* (from the cache at "hit", after generating at "made"); fs::read of it
Read(p) ==
    /\ pc[p] \in {"hit", "made"}
    /\ pc' = [pc EXCEPT ![p] = "done"]
    /\ ret' = [ret EXCEPT ![p] =
                [status |-> IF IsFile(ThumbPath(p)) THEN "Ok" ELSE "ReadFailed",
                 path |-> GetThumbnailPath(ThumbDir, rel[p])]]
    /\ UNCHANGED <<fs, now, nextVer, rel, img, pos, listing, walk>>

(***************************************************************************)
(* The environment: time passes and source images change under the server. *)
(***************************************************************************)
Tick ==
    /\ now < MaxTime
    /\ now' = now + 1
    /\ UNCHANGED <<fs, nextVer, pc, rel, img, pos, ret, listing, walk>>

\* a source image is written anew (replaced as a whole), or added
WriteSource(s) ==
    /\ nextVer <= MaxVer
    /\ IsDir(Parent(s))
    /\ ~IsDir(s)
    /\ fs' = Put(fs, s, FileEntry(now, Encode(Picture(nextVer, SourceSize(s)))))
    /\ nextVer' = nextVer + 1
    /\ UNCHANGED <<now, pc, rel, img, pos, ret, listing, walk>>

\* the modification time of a source image is set (utimes), possibly ahead
\* of the clock
TouchSource(s, t) ==
    /\ IsFile(s)
    /\ t # fs[s].mtime
    /\ fs' = Put(fs, s, FileEntry(t, fs[s].data))
    /\ UNCHANGED <<now, nextVer, pc, rel, img, pos, ret, listing, walk>>

\* a source image is removed
RemoveSource(s) ==
    /\ IsFile(s)
    /\ fs' = [q \in DOMAIN fs \ {s} |-> fs[q]]
    /\ UNCHANGED <<now, nextVer, pc, rel, img, pos, ret, listing, walk>>

\* the directories of the gallery whose permissions the environment changes
Dirs == { PicDir, PicDir \o <<"a">> }

\* the permission to list a directory is taken away or given back
Chmod(d) ==
    /\ IsDir(d)
    /\ fs' = [fs EXCEPT ![d].readable = ~fs[d].readable]
    /\ UNCHANGED <<now, nextVer, pc, rel, img, pos, ret, listing, walk>>

\* the handlers answer /thumb requests concurrently while the sources change
Next ==
    \/ \E p \in Procs : \E r \in Requests(p) : Start(p, r)
    \/ \E p \in Procs : Ensure(p)
    \/ \E p \in Procs : Decode(p)
    \/ \E p \in Procs : Mkdir(p)
    \/ \E p \in Procs : MkdirFail(p)
    \/ \E p \in Procs : Create(p)
    \/ \E p \in Procs : Write(p)
    \/ \E p \in Procs : WriteFail(p)
    \/ \E p \in Procs : Read(p)
    \/ Tick
    \/ \E s \in Sources : WriteSource(s)
    \/ \E s \in Sources, t \in 0..MaxTime : TouchSource(s, t)
    \/ \E s \in Sources : RemoveSource(s)

Spec == Init /\ [][Next]_vars

\* the gallery: one handler answers /thumb requests, the listing is taken
\* between its steps, the sources change
NextGallery ==
    \/ \E r \in Requests(1) : Start(1, r)
    \/ Ensure(1)
    \/ Decode(1)
    \/ Mkdir(1)
    \/ MkdirFail(1)
    \/ Create(1)
    \/ Write(1)
    \/ WriteFail(1)
    \/ Read(1)
    \/ Discover
    \/ \E d \in Dirs : Chmod(d)
    \/ Tick
    \/ \E s \in Sources : WriteSource(s)
    \/ \E s \in Sources, t \in 0..MaxTime : TouchSource(s, t)
    \/ \E s \in Sources : RemoveSource(s)

SpecGallery == Init /\ [][NextGallery]_vars

(***************************************************************************)
(* The thumbnail sizes: one handler resolves a/cat.png for a source of     *)
(* every size of Sizes.                                                    *)
(***************************************************************************)
Sizes ==
    ((1..MaxSide) \X (1..MaxSide))
        \cup { <<300, 600>>, <<600, 300>>, <<1000, 1>>, <<1, 1000>>,
               <<64, 2032>>, <<97, 97>>, <<200, 200>>, <<150, 100>> }

InitSizes == \E size \in Sizes : InitWith(size)

NextSizes ==
    \/ Start(1, <<"a", "cat.png">>)
    \/ Ensure(1)
    \/ Decode(1)
    \/ Mkdir(1)
    \/ Create(1)
    \/ Write(1)
    \/ Read(1)

SpecSizes == InitSizes /\ [][NextSizes]_vars

(***************************************************************************)
(* The request paths: two handlers resolve different relative paths of the *)
(* one picture, among them a path with a ".." segment, an absolute path    *)
(* and a path into the cache directory; nothing fails and nothing else     *)
(* changes the files.                                                      *)
(***************************************************************************)
PathRequests(p) ==
    IF p = 1
    THEN { <<"a", "cat.png">>, <<DotDot, "pics", "a", "cat.png">>,
           <<RootMark, "pics", "a", "cat.png">> }
    ELSE { <<".thumbnails", "a", "cat.png">> }

NextPaths ==
    \/ \E p \in Procs : \E r \in PathRequests(p) : Start(p, r)
    \/ \E p \in Procs : Ensure(p)
    \/ \E p \in Procs : Decode(p)
    \/ \E p \in Procs : Mkdir(p)
    \/ \E p \in Procs : Create(p)
    \/ \E p \in Procs : Write(p)
    \/ \E p \in Procs : Read(p)

SpecPaths == Init /\ [][NextPaths]_vars

(***************************************************************************)
(* The edits: one handler answers requests again and again while the      *)
(* picture a/cat.png is rewritten, each rewrite at a later time than the   *)
(* one before; no directory creation and no write fails.                   *)
(***************************************************************************)
NextEdits ==
    \/ \E r \in Requests(1) : Start(1, r)
    \/ Ensure(1)
    \/ Decode(1)
    \/ Mkdir(1)
    \/ Create(1)
    \/ Write(1)
    \/ Read(1)
    \/ Tick
    \/ \E s \in Sources : now > fs[s].mtime /\ WriteSource(s)

SpecEdits == Init /\ [][NextEdits]_vars

(***************************************************************************)
(* The tree: a gallery with a dot-prefixed directory, a directory named    *)
(* .thumbnails below the top level and a dangling symbolic link with an    *)
(* image name; discover lists it and one handler resolves the paths of the *)
(* listing; nothing else changes the files.                                *)
(***************************************************************************)
InitTree ==
    /\ fs = ( <<>> :> DirEntry ) @@
            ( PicDir :> DirEntry ) @@
            ( ThumbDir :> DirEntry ) @@
            ( (PicDir \o <<"a">>) :> DirEntry ) @@
            ( (PicDir \o <<"a", "cat.png">>) :>
                FileEntry(0, Encode(Picture(1, <<300, 600>>))) ) @@
            ( (PicDir \o <<"a", ".thumbnails">>) :> DirEntry ) @@
            ( (PicDir \o <<"a", ".thumbnails", "B.PNG">>) :>
                FileEntry(0, Encode(Picture(1, <<7, 3>>))) ) @@
            ( (PicDir \o <<".hidden">>) :> DirEntry ) @@
            ( (PicDir \o <<".hidden", "cat.png">>) :>
                FileEntry(0, Encode(Picture(1, <<7, 3>>))) ) @@
            ( (PicDir \o <<"notes.txt">>) :> FileEntry(0, <<Junk>>) ) @@
            ( (PicDir \o <<"missing.jpg">>) :>
                LinkEntry(PicDir \o <<"README">>) )
    /\ now = 0
    /\ nextVer = 2
    /\ pc = [p \in Procs |-> "idle"]
    /\ rel = [p \in Procs |-> <<>>]
    /\ img = [p \in Procs |-> NoImage]
    /\ pos = [p \in Procs |-> 0]
    /\ ret = [p \in Procs |-> NoResult]
    /\ listing = <<>>
    /\ walk = NoWalk

NextTree ==
    \/ Discover
    \/ \E i \in 1..Len(listing) : Start(1, listing[i])
    \/ Ensure(1)
    \/ Decode(1)
    \/ Mkdir(1)
    \/ Create(1)
    \/ Write(1)
    \/ Read(1)
    \/ Tick

SpecTree == InitTree /\ [][NextTree]_vars

(***************************************************************************)
(* The walk: the recursion of collect_images taken one directory entry at  *)
(* a time, over trees with symbolic links to directories.  A frame of the  *)
(* stack is one call: the path the program walks, the directory the        *)
(* operating system reaches by it, the symbolic links in the path, and the *)
(* entries of the directory not yet looked at.                             *)
(***************************************************************************)
\* line 128: the call reads the directory; a failed read gives no entries
Frame(path, real, links) ==
    [ path  |-> path,
      real  |-> real,
      links |-> links,
      todo  |-> IF fs[real].readable
                THEN {FileName(q) : q \in Entries(real)}
                ELSE {} ]

WalkIsDirNoLinks(real, links) == fs[real].kind = "dir"

\* line 131: path.is_dir() of an entry follows a symbolic link; it is false
\* when the link dangles or when the path holds more links than the
\* operating system follows
WalkIsDir(real, links) ==
    \/ fs[real].kind = "dir"
    \/ /\ fs[real].kind = "link"
       /\ links < MaxLinks
       /\ fs[real].data \in DOMAIN fs
       /\ fs[fs[real].data].kind = "dir"

\* the directory an entry that is a directory stands for
WalkTarget(real) == IF fs[real].kind = "link" THEN fs[real].data ELSE real

WalkLinks(real, links) == IF fs[real].kind = "link" THEN links + 1 ELSE links

\* lines 146-148: api_images calls collect_images of the root
WalkStart ==
    /\ walk.state = "idle"
    /\ walk' = [ state  |-> "running",
                 stack  |-> << Frame(PicDir, PicDir, 0) >>,
                 images |-> <<>>,
                 dirs   |-> << PicDir >> ]
    /\ UNCHANGED <<fs, now, nextVer, pc, rel, img, pos, ret, listing>>

\* lines 129-140: the innermost call looks at its next entry, in whatever
\* order the filesystem enumerates them, or returns when none is left
WalkStep ==
    /\ walk.state = "running"
    /\ walk.stack # <<>>
    /\ LET depth == Len(walk.stack)
           f     == walk.stack[depth]
       IN  IF f.todo = {}
           THEN walk' = [walk EXCEPT !.stack = SubSeq(walk.stack, 1, depth - 1)]
           ELSE \E n \in f.todo :
                  LET path == f.path \o <<n>>
                      real == f.real \o <<n>>
                      rest == [walk.stack EXCEPT ![depth].todo = f.todo \ {n}]
                  IN  IF WalkIsDir(real, f.links)
                      THEN IF Descends(path)
                           THEN walk' =
                                  [walk EXCEPT
                                     !.stack = Append(rest,
                                                 Frame(path, WalkTarget(real),
                                                       WalkLinks(real, f.links))),
                                     !.dirs = Append(walk.dirs, WalkTarget(real))]
                           ELSE walk' = [walk EXCEPT !.stack = rest]
                      ELSE IF IsImageFile(path) /\ IsPrefix(PicDir, path)
                      THEN walk' =
                             [walk EXCEPT
                                !.stack = rest,
                                !.images = Append(walk.images,
                                                  StripPrefix(path, PicDir))]
                      ELSE walk' = [walk EXCEPT !.stack = rest]
    /\ UNCHANGED <<fs, now, nextVer, pc, rel, img, pos, ret, listing>>

\* lines 148-149: the outermost call has returned; the paths are sorted
WalkReturn ==
    /\ walk.state = "running"
    /\ walk.stack = <<>>
    /\ walk' = [walk EXCEPT !.state = "returned"]
    /\ listing' = Sort(walk.images)
    /\ UNCHANGED <<fs, now, nextVer, pc, rel, img, pos, ret>>

\* a gallery of directories and files only
PlainTree ==
    ( <<>> :> DirEntry ) @@
    ( PicDir :> DirEntry ) @@
    ( ThumbDir :> DirEntry ) @@
    ( (PicDir \o <<"a">>) :> DirEntry ) @@
    ( (PicDir \o <<"a", "cat.png">>) :>
        FileEntry(0, Encode(Picture(1, <<300, 600>>))) ) @@
    ( (PicDir \o <<"B.PNG">>) :> FileEntry(0, <<Junk>>) )

\* the same with b, a symbolic link to the directory a beside it
AliasTree == PlainTree @@ ( (PicDir \o <<"b">>) :> LinkEntry(PicDir \o <<"a">>) )

\* the same with a/loop, a symbolic link back to the root
CycleTree ==
    PlainTree @@ ( (PicDir \o <<"a", "loop">>) :> LinkEntry(PicDir) )

WalkTrees == { PlainTree, AliasTree, CycleTree }

InitWalk ==
    /\ fs \in WalkTrees
    /\ now = 0
    /\ nextVer = 2
    /\ pc = [p \in Procs |-> "idle"]
    /\ rel = [p \in Procs |-> <<>>]
    /\ img = [p \in Procs |-> NoImage]
    /\ pos = [p \in Procs |-> 0]
    /\ ret = [p \in Procs |-> NoResult]
    /\ listing = <<>>
    /\ walk = NoWalk

NextWalk ==
    \/ WalkStart
    \/ WalkStep
    \/ WalkReturn

\* the thread that runs collect_images keeps running: a call that has an
\* entry to look at, or that has run out of entries, takes its step
SpecWalk == InitWalk /\ [][NextWalk]_vars /\ WF_vars(WalkStep)

(***************************************************************************)
(* The claims.                                                             *)
(***************************************************************************)
CatRel == <<"a", "cat.png">>

CatSrc == PicDir \o CatRel

CatThumb == PicDir \o <<".thumbnails">> \o CatRel

\* a relative path of the gallery that lies inside root/.thumbnails
InsideCache(relative) == IsPrefix(PicDir \o <<".thumbnails">>, PicDir \o relative)

\* the entry t of filesystem f is valid for the source s
ValidIn(f, t, s) ==
    /\ t \in DOMAIN f
    /\ s \in DOMAIN f
    /\ f[t].mtime >= f[s].mtime

\* the entry t of filesystem f exists and is older than the source s
StaleIn(f, t, s) ==
    /\ t \in DOMAIN f
    /\ s \in DOMAIN f
    /\ f[t].mtime < f[s].mtime

\* C1: whatever the cache holds, discover returns no relative path that
\* lies inside the cache directory root/.thumbnails: neither the listing
\* the last discover produced nor the one it would produce now has one.
C1_DiscoverSkipsCache ==
    /\ \A i \in 1..Len(listing) : ~InsideCache(listing[i])
    /\ \A r \in CollectImages(PicDir, PicDir) : ~InsideCache(r)

\* C1 witness: the cache holds a complete thumbnail with an image extension
\* and the listing is the one discover gives of this very filesystem: the
\* two source images, nothing of the cache.
C1_Witness ==
    /\ IsFile(CatThumb)
    /\ Decodable(fs[CatThumb].data)
    /\ IsImageFile(CatThumb)
    /\ CollectImages(PicDir, PicDir) = { <<"B.PNG">>, CatRel }
    /\ listing = << <<"B.PNG">>, CatRel >>

\* C2: the validity check returns the candidate path without generating
\* (and without touching the filesystem) exactly when the candidate exists
\* and its modification time is >= the source's; in every other case the
\* handler goes on to generation.
C2_HitIffValid ==
    [][\A p \in Procs :
          (pc[p] = "ensure" /\ pc'[p] # "ensure") =>
             IF ValidIn(fs, ThumbPath(p), SrcPath(p))
             THEN pc'[p] = "hit" /\ fs' = fs
             ELSE pc'[p] = "decode"]_vars

\* C2 witness: a handler stands at the cache-hit return for a thumbnail
\* whose modification time equals its source's.
C2_Witness ==
    \E p \in Procs :
        /\ pc[p] = "hit"
        /\ rel[p] = CatRel
        /\ IsFile(CatThumb) /\ IsFile(CatSrc)
        /\ fs[CatThumb].mtime = fs[CatSrc].mtime

\* handler p takes the step that receives a request (lines 99-104)
Starts(p) ==
    /\ pc[p] \in {"idle", "done"}
    /\ <<pc'[p], rel'[p], ret'[p]>> # <<pc[p], rel[p], ret[p]>>

\* C5: a request whose source does not exist under root ends at once with
\* NotFound; the step starts no generation and changes nothing in the
\* filesystem, also when a cache entry for the path exists.
C5_MissingSourceNotFound ==
    [][\A p \in Procs :
          (Starts(p) /\ ~(Join(PicDir, rel'[p]) \in DOMAIN fs)) =>
                /\ pc'[p] = "done"
                /\ ret'[p].status = "NotFound"
                /\ fs' = fs]_vars

\* C5 witness: only the first handler ever ran; it cached a/cat.png, the
\* source was removed, and its request for a/cat.png ended with NotFound
\* while the orphaned entry is in the cache.
C5_Witness ==
    /\ pc[2] = "idle"
    /\ pc[1] = "done" /\ rel[1] = CatRel /\ ret[1].status = "NotFound"
    /\ ~Exists(CatSrc)
    /\ IsFile(CatThumb)

\* the allow-list of the spec: jpg, jpeg, png, gif, webp, bmp, ico, compared
\* without regard to case
AllowedName(name) ==
    ToLower(ExtensionOf(name)) \in
        { <<"j", "p", "g">>, <<"j", "p", "e", "g">>, <<"p", "n", "g">>,
          <<"g", "i", "f">>, <<"w", "e", "b", "p">>, <<"b", "m", "p">>,
          <<"i", "c", "o">> }

\* C6: a request whose source exists but whose name is not allowed (another
\* extension, or none) ends with NotFound and changes nothing; an existing
\* source whose extension is allowed in any letter case is accepted, as the
\* discoverer lists it.
C6_WrongExtensionNotFound ==
    [][\A p \in Procs :
          (Starts(p) /\ Join(PicDir, rel'[p]) \in DOMAIN fs) =>
                IF AllowedName(FileName(rel'[p]))
                THEN pc'[p] = "ensure"
                ELSE /\ pc'[p] = "done"
                     /\ ret'[p].status = "NotFound"
                     /\ fs' = fs]_vars

\* C6 witness: the request for notes.txt, which exists, ended with NotFound.
C6_Witness ==
    /\ pc[1] = "done" /\ rel[1] = <<"notes.txt">>
    /\ Exists(PicDir \o <<"notes.txt">>)
    /\ ret[1].status = "NotFound"

Completes(p) ==
    /\ pc[p] \in {"ensure", "write"}
    /\ pc'[p] \in {"hit", "made"}

\* C3 as stated: whenever a request has resolved a thumbnail for a source
\* that exists, the entry is valid, so that a second request that follows
\* with the source unchanged takes the cache hit and rewrites nothing.
C3_Original ==
    [][\A p \in Procs :
          (Completes(p) /\ SrcPath(p) \in DOMAIN fs') =>
              ValidIn(fs', ThumbPath(p), SrcPath(p))]_vars

\* C3 amended: the same, for a source whose modification time is not ahead
\* of the clock when the request completes; and a request that finds the
\* entry valid returns its path and neither the check nor the read of the
\* returned file changes the filesystem.
C3_IdempotentUnlessFutureDated ==
    [][\A p \in Procs :
          /\ (Completes(p) /\ SrcPath(p) \in DOMAIN fs'
                /\ fs'[SrcPath(p)].mtime <= now') =>
                    ValidIn(fs', ThumbPath(p), SrcPath(p))
          /\ (pc[p] = "ensure" /\ pc'[p] # "ensure"
                /\ ValidIn(fs, ThumbPath(p), SrcPath(p))) =>
                    (pc'[p] = "hit" /\ fs' = fs)
          /\ (pc[p] \in {"hit", "made"} /\ pc'[p] # pc[p]) =>
                    (pc'[p] = "done" /\ fs' = fs /\ ret'[p].path = ThumbPath(p))]_vars

\* C3 witness: only the first handler ever ran; the thumbnail of a/cat.png
\* that one of its earlier requests wrote is whole, and its present request
\* for a/cat.png stands at the cache-hit return.
C3_Witness ==
    /\ pc[2] = "idle"
    /\ pc[1] = "hit" /\ rel[1] = CatRel
    /\ IsFile(CatThumb) /\ Decodable(fs[CatThumb].data)
    /\ ValidIn(fs, CatThumb, CatSrc)

\* handler p takes a step of line 64 that creates or writes its file
WritesFile(p) ==
    \/ pc[p] = "create" /\ pc'[p] = "write"
    \/ pc[p] = "write" /\ (pc'[p] = "made" \/ pos'[p] = pos[p] + 1)

\* C4 as stated: a request that finds the cached thumbnail older than its
\* source regenerates it; rewriting a stale entry gives it a modification
\* time strictly greater than before; and when the generation returns the
\* entry's modification time is >= the source's.
C4_Original ==
    [][\A p \in Procs :
          /\ (pc[p] = "ensure" /\ pc'[p] # "ensure"
                /\ StaleIn(fs, ThumbPath(p), SrcPath(p))) =>
                    pc'[p] = "decode"
          /\ (pc[p] = "create" /\ pc'[p] = "write"
                /\ StaleIn(fs, ThumbPath(p), SrcPath(p))) =>
                    fs'[ThumbPath(p)].mtime > fs[ThumbPath(p)].mtime
          /\ (pc[p] = "write" /\ pc'[p] = "made" /\ SrcPath(p) \in DOMAIN fs') =>
                    fs'[ThumbPath(p)].mtime >= fs'[SrcPath(p)].mtime]_vars

\* C4 amended: a request that finds the cached thumbnail older than its
\* source regenerates it; every write of the entry gives it the time of the
\* write, never less than before; the new time is strictly greater than
\* the stale one, and the entry valid again when generation returns,
\* provided the source's modification time is not ahead of the clock.
C4_RegeneratesStale ==
    [][\A p \in Procs :
          /\ (pc[p] = "ensure" /\ pc'[p] # "ensure"
                /\ StaleIn(fs, ThumbPath(p), SrcPath(p))) =>
                    pc'[p] = "decode"
          /\ WritesFile(p) =>
                    /\ fs'[ThumbPath(p)].mtime = now
                    /\ ThumbPath(p) \in DOMAIN fs =>
                          fs'[ThumbPath(p)].mtime >= fs[ThumbPath(p)].mtime
          /\ (pc[p] = "create" /\ pc'[p] = "write"
                /\ StaleIn(fs, ThumbPath(p), SrcPath(p))
                /\ fs[SrcPath(p)].mtime <= now) =>
                    fs'[ThumbPath(p)].mtime > fs[ThumbPath(p)].mtime
          /\ (pc[p] = "write" /\ pc'[p] = "made" /\ SrcPath(p) \in DOMAIN fs'
                /\ fs'[SrcPath(p)].mtime <= now') =>
                    fs'[ThumbPath(p)].mtime >= fs'[SrcPath(p)].mtime]_vars

\* C4 witness: only the first handler ever ran; the source's modification
\* time was advanced to 1, and the handler has just generated the thumbnail
\* at time 1, whole and valid.
C4_Witness ==
    /\ pc[2] = "idle"
    /\ pc[1] = "made" /\ rel[1] = CatRel
    /\ now = 1
    /\ IsFile(CatSrc) /\ fs[CatSrc].mtime = 1
    /\ IsFile(CatThumb) /\ fs[CatThumb].mtime = 1
    /\ Decodable(fs[CatThumb].data)

\* C7 (its clause on the file's content): once two concurrent requests for
\* a/cat.png have both generated the thumbnail and returned, the file is a
\* whole thumbnail of one picture, not a mixture and not truncated.
C7_Claim ==
    (\A p \in Procs : pc[p] = "made" /\ rel[p] = CatRel) =>
        (IsFile(CatThumb) /\ Decodable(fs[CatThumb].data))

\* C8: generation is not deduplicated: a handler at the validity check is
\* never held back by the other handlers, and when the entry is not valid
\* it can go on to generation although another handler is generating the
\* same path; the two then write the same destination.
C8_NotDeduplicated ==
    \A p \in Procs :
        /\ pc[p] = "ensure" => ENABLED Ensure(p)
        /\ \A q \in Procs \ {p} :
              /\ (pc[p] = "ensure" /\ rel[q] = rel[p]
                    /\ pc[q] \in {"decode", "mkdir", "create", "write"}
                    /\ ~ValidIn(fs, ThumbPath(p), SrcPath(p))) =>
                        ENABLED (Ensure(p) /\ pc'[p] = "decode")
              /\ (pc[p] = "write" /\ pc[q] = "write" /\ rel[q] = rel[p]) =>
                        ThumbPath(p) = ThumbPath(q)

\* C8 witness: both handlers are past the validity check for a/cat.png and
\* each has written a chunk of its own encoding to the one destination.
C8_Witness ==
    /\ \A p \in Procs : pc[p] = "write" /\ rel[p] = CatRel /\ pos[p] >= 1
    /\ ThumbPath(1) = ThumbPath(2)

Abs(x) == IF x >= 0 THEN x ELSE 0 - x

\* C10: the thumbnail generated of a w x h source has its longer side equal
\* to 200 within rounding and each side within rounding of the source's
\* side scaled by 200 / max(w, h).
C10_Claim ==
    (pc[1] = "made" /\ IsFile(CatSrc) /\ IsFile(CatThumb)) =>
        LET src   == fs[CatSrc].data[1]
            thumb == fs[CatThumb].data[1]
            long  == MaxOf(src.w, src.h)
        IN  /\ Abs(MaxOf(thumb.w, thumb.h) - 200) <= 1
            /\ Abs(thumb.w * long - 200 * src.w) <= long
            /\ Abs(thumb.h * long - 200 * src.h) <= long

\* C11: a failed generation is never remembered as success.  Only the first
\* handler ever ran: when its request ends with GenerationFailed, the cache
\* holds no entry for the path that passes the validity check.
C11_Claim ==
    [][(pc[2] = "idle" /\ pc[1] # "done" /\ pc'[1] = "done"
          /\ ret'[1].status = "GenerationFailed") =>
              ~CacheHit(ThumbPath(1), SrcPath(1))']_vars

\* the steps of generate_thumbnail
GenStages == {"decode", "mkdir", "create", "write"}

\* C12: once the source passed the precondition, a failure of the decode,
\* of the directory creation or of the save ends the request with
\* GenerationFailed for the source, never with NotFound or a thumbnail path;
\* a source that cannot be decoded always fails so; and when no file stands
\* in the way the parent directories of the thumbnail are created, those
\* that exist being left as they are.
C12_FailuresAreGenerationFailed ==
    [][\A p \in Procs :
          /\ (pc[p] \in GenStages /\ pc'[p] = "done") =>
                ret'[p] = [status |-> "GenerationFailed", path |-> SrcPath(p)]
          /\ (pc[p] \in GenStages /\ pc'[p] # pc[p]) =>
                \/ pc'[p] = "done"
                \/ pc[p] = "decode" /\ pc'[p] = "mkdir"
                \/ pc[p] = "mkdir" /\ pc'[p] = "create"
                \/ pc[p] = "create" /\ pc'[p] = "write"
                \/ /\ pc[p] = "write" /\ pc'[p] = "made"
                   /\ Len(fs'[ThumbPath(p)].data) = NChunks
          /\ (pc[p] = "decode" /\ pc'[p] # pc[p]
                /\ ~(IsFile(SrcPath(p)) /\ Decodable(fs[SrcPath(p)].data))) =>
                    pc'[p] = "done"
          /\ (pc[p] = "mkdir" /\ pc'[p] = "create") =>
                /\ \A d \in Ancestors(ThumbPath(p)) :
                      d \in DOMAIN fs' /\ fs'[d].kind = "dir"
                /\ \A q \in DOMAIN fs : q \in DOMAIN fs' /\ fs'[q] = fs[q]]_vars

\* C12 witness: only the first handler ever ran; an earlier request of it
\* created the missing directory .thumbnails/a, and its request for B.PNG,
\* which exists, has an image extension and cannot be decoded, ended with
\* GenerationFailed.
C12_Witness ==
    /\ pc[2] = "idle"
    /\ pc[1] = "done" /\ rel[1] = <<"B.PNG">>
    /\ IsFile(PicDir \o <<"B.PNG">>) /\ IsImageFile(PicDir \o <<"B.PNG">>)
    /\ ret[1] = [status |-> "GenerationFailed", path |-> PicDir \o <<"B.PNG">>]
    /\ IsDir(ThumbDir \o <<"a">>)

\* a regular file under the root that the traversal reaches: every
\* directory from the root down to it can be read, and none below the root
\* is named .thumbnails
Reached(q) ==
    /\ IsFile(q)
    /\ Len(q) > Len(PicDir)
    /\ \A n \in Len(PicDir)..(Len(q) - 1) :
          LET d == SubSeq(q, 1, n)
          IN  /\ IsDir(d)
              /\ fs[d].readable
              /\ n > Len(PicDir) => d[n] # ".thumbnails"
    /\ SubSeq(q, 1, Len(PicDir)) = PicDir

\* the relative paths of the reached files with an allowed extension
AllowedReached ==
    { SubSeq(q, Len(PicDir) + 1, Len(q)) :
        q \in {f \in DOMAIN fs : Reached(f) /\ AllowedName(FileName(f))} }

\* C13: the paths discover collects are exactly the reached files whose
\* extension, compared without regard to case, is in the allow-list, and a
\* listing that discover returns holds each of them once and nothing else.
C13_ListsExactlyAllowed ==
    [][/\ CollectImages(PicDir, PicDir) = AllowedReached
       /\ listing' # listing =>
            /\ {listing'[i] : i \in 1..Len(listing')} = AllowedReached
            /\ Len(listing') = Cardinality(AllowedReached)]_vars

\* C13 witness: the gallery holds B.PNG and a/cat.png besides notes.txt,
\* README and .png, every directory can be read, and the listing discover
\* returned holds the first two and only them.
C13_Witness ==
    /\ \A d \in Dirs : IsDir(d) /\ fs[d].readable
    /\ \A n \in {"B.PNG", "notes.txt", "README", ".png"} : IsFile(PicDir \o <<n>>)
    /\ IsFile(CatSrc)
    /\ Len(listing) = 2
    /\ {listing[i] : i \in 1..Len(listing)} = { <<"B.PNG">>, CatRel }

\* a sequence of relative paths in byte-wise lexicographic order
Sorted(seq) ==
    \A i, j \in 1..Len(seq) :
        i < j => ~StrLess(PathString(seq[j]), PathString(seq[i]))

\* the sort gives one sorted sequence for every set of relative paths and
\* every order in which they are collected
SortIsCanonical ==
    \A S \in SUBSET {r \in RelPaths : ~IsAbsolute(r)} :
        LET c == Sort(CHOOSE o \in Orders(S) : TRUE)
        IN  /\ Sorted(c)
            /\ \A o \in Orders(S) : Sort(o) = c

\* C14: whatever the order in which the filesystem enumerates the entries,
\* the sequence discover returns is sorted lexicographically, and two
\* enumerations of the same filesystem give the same sequence; every
\* listing returned is sorted.
C14_SortedWhateverTheOrder ==
    /\ \A o1, o2 \in Orders(CollectImages(PicDir, PicDir)) :
          Sort(o1) = Sort(o2) /\ Sorted(Sort(o1))
    /\ Sorted(listing)
    /\ SortIsCanonical

\* C14 witness: the filesystem can enumerate the two images in two orders,
\* one of them not sorted, and the listing returned is B.PNG before
\* a/cat.png.
C14_Witness ==
    /\ Cardinality(Orders(CollectImages(PicDir, PicDir))) = 2
    /\ \E o \in Orders(CollectImages(PicDir, PicDir)) : ~Sorted(o)
    /\ listing = Sort(<< CatRel, <<"B.PNG">> >>)
    /\ listing[1] = <<"B.PNG">>

\* C15: a directory that cannot be read contributes nothing and never fails
\* discover: discover always has a sequence to return; it collects no file
\* below a directory that cannot be read, and every allowed file reached
\* through readable directories; when the root cannot be read it collects
\* nothing.
C15_UnreadableIsEmpty ==
    LET collected == CollectImages(PicDir, PicDir)
    IN  /\ \E o \in Orders(collected) : Len(Sort(o)) = Cardinality(collected)
        /\ \A r \in collected : Reached(PicDir \o r)
        /\ \A q \in DOMAIN fs :
              (Reached(q) /\ AllowedName(FileName(q))) =>
                  StripPrefix(q, PicDir) \in collected
        /\ ~fs[PicDir].readable =>
              (collected = {} /\ Orders(collected) = { <<>> })

\* C15 witness: the directory a cannot be read while a/cat.png is in it, and
\* discover returned B.PNG of the root alone.
C15_Witness ==
    /\ fs[PicDir].readable
    /\ ~fs[PicDir \o <<"a">>].readable
    /\ IsFile(CatSrc)
    /\ CollectImages(PicDir, PicDir) = { <<"B.PNG">> }
    /\ listing = << <<"B.PNG">> >>

\* C16: no step of discover, of resolve (failing ones included) or of the
\* environment removing a source takes a file or a directory out of the
\* cache: what is in the cache directory stays there, as a file or as a
\* directory.
C16_CacheNeverShrinks ==
    [][\A q \in DOMAIN fs :
          IsPrefix(ThumbDir, q) =>
              (q \in DOMAIN fs' /\ fs'[q].kind = fs[q].kind)]_vars

\* C16 witness: the thumbnail of a/cat.png was written completely, its
\* source was removed afterwards, a later request for the path ended with
\* NotFound and discover ran: the orphaned entry is still in the cache.
C16_Witness ==
    /\ ~Exists(CatSrc)
    /\ IsFile(CatThumb) /\ Decodable(fs[CatThumb].data)
    /\ pc[1] = "done" /\ rel[1] = CatRel /\ ret[1].status = "NotFound"
    /\ listing = << <<"B.PNG">> >>

\* C17: discover is read-only: the step that returns a listing leaves every
\* file and directory, the cache and all modification times included, and
\* the requests in progress as they are.
C17_DiscoverReadOnly ==
    [][listing' # listing =>
          /\ fs' = fs
          /\ UNCHANGED <<now, nextVer, pc, rel, img, pos, ret>>]_vars

\* C17 witness: discover returned the two images at a time when the cache
\* holds the thumbnail of a/cat.png; the thumbnail and the directories have
\* the modification times they were given at time 0.
C17_Witness ==
    /\ listing = << <<"B.PNG">>, CatRel >>
    /\ now = 1
    /\ IsFile(CatThumb) /\ fs[CatThumb].mtime = 0
    /\ fs[ThumbDir].mtime = 0 /\ fs[PicDir].mtime = 0
    /\ pc[1] = "done" /\ ret[1].status = "Ok"

\* C18: two handlers resolve different relative paths while every picture
\* can be decoded and no write fails, so that each request running alone
\* ends with its thumbnail (or with NotFound when it has no source): in
\* every interleaving each request ends so, and the file a handler has just
\* generated is the whole thumbnail it encoded.
C18_Claim ==
    (rel[1] # rel[2]) =>
        \A p \in Procs :
            /\ pc[p] = "done" => ret[p].status \in {"Ok", "NotFound"}
            /\ pc[p] = "made" =>
                  (IsFile(ThumbPath(p)) /\ Decodable(fs[ThumbPath(p)].data))

\* C19: every file or directory a step of resolve creates or changes lies
\* strictly under root/.thumbnails, whatever relative path passed the
\* precondition.
C19_Claim ==
    [][\A q \in DOMAIN fs' :
          (q \notin DOMAIN fs \/ fs'[q] # fs[q]) =>
              (IsPrefix(ThumbDir, q) /\ q # ThumbDir)]_vars

\* C20: a request that took the cache hit while another handler is in the
\* middle of writing the thumbnail of the same path reads, at line 107, a
\* file whose content is a whole thumbnail.
C20_Claim ==
    [][\A p \in Procs : \A q \in Procs \ {p} :
          (pc[p] = "hit" /\ pc'[p] = "done" /\ ret'[p].status = "Ok"
             /\ rel[p] = CatRel /\ rel[q] = CatRel /\ pc[q] = "write") =>
                Decodable(fs[ThumbPath(p)].data)]_vars

\* C21: a thumbnail that passes the validity check was generated from the
\* present content of its source: when the handler takes the cache hit, the
\* thumbnail in the cache encodes the version of the picture the source
\* holds.
C21_Claim ==
    [][(pc[1] = "ensure" /\ pc'[1] = "hit" /\ rel[1] = CatRel) =>
          /\ Decodable(fs[CatThumb].data)
          /\ fs[CatThumb].data[1].ver = fs[CatSrc].data[1].ver]_vars

\* C22: resolve makes no thumbnail of a thumbnail: a handler whose source
\* lies inside the cache directory generates nothing, and the cache
\* directory never holds a nested .thumbnails tree.
C22_Claim ==
    /\ \A p \in Procs :
          (rel[p] # <<>> /\ IsPrefix(ThumbDir, SrcPath(p))) =>
              pc[p] \notin {"mkdir", "create", "write", "made"}
    /\ \A q \in DOMAIN fs : ~IsPrefix(ThumbDir \o <<ThumbDirName>>, q)

\* C24: an orphaned cache entry is not served: while the source of
\* a/cat.png is removed and its thumbnail is in the cache, a request for the
\* path ends at once with NotFound and leaves every file as it is; and the
\* validity check, whose read of the source's metadata fails, never takes
\* the orphan for a cache hit.
C24_OrphanNotServed ==
    [][\A p \in Procs :
          /\ (Starts(p) /\ rel'[p] = CatRel
                /\ ~Exists(CatSrc) /\ IsFile(CatThumb)) =>
                    /\ pc'[p] = "done"
                    /\ ret'[p] = [status |-> "NotFound", path |-> <<>>]
                    /\ fs' = fs
          /\ (pc[p] = "ensure" /\ pc'[p] # "ensure" /\ rel[p] = CatRel
                /\ ~Exists(CatSrc)) =>
                    (pc'[p] = "decode" /\ fs' = fs)]_vars

\* C24 witness: only the first handler ever ran; the picture was written at
\* time 0 and its thumbnail at time 1, the picture was removed, and the
\* request for a/cat.png that followed ended with NotFound; the thumbnail is
\* whole and has its modification time 1.
C24_Witness ==
    /\ pc[2] = "idle"
    /\ ~Exists(CatSrc)
    /\ IsFile(CatThumb) /\ Decodable(fs[CatThumb].data)
    /\ fs[CatThumb].mtime = 1
    /\ pc[1] = "done" /\ rel[1] = CatRel
    /\ ret[1] = [status |-> "NotFound", path |-> <<>>]

\* C23: every relative path discover returns is accepted by the
\* precondition of resolve on the same filesystem: a request for a path that
\* discover collects does not end with NotFound.
C23_Claim ==
    [][(Starts(1) /\ rel'[1] \in CollectImages(PicDir, PicDir)) =>
          ret'[1].status # "NotFound"]_vars

\* the relative paths of the tree that discover is to return: the entries
\* with an allowed name that are no directories and have no directory named
\* .thumbnails above them
TreeImages ==
    { StripPrefix(q, PicDir) :
        q \in { f \in DOMAIN fs :
                  /\ Len(f) > Len(PicDir) /\ IsPrefix(PicDir, f)
                  /\ ~IsDir(f)
                  /\ AllowedName(FileName(f))
                  /\ \A n \in (Len(PicDir) + 1)..(Len(f) - 1) :
                        f[n] # ".thumbnails" } }

\* C25: the traversal skips exactly the directories named .thumbnails, at
\* any depth: discover collects no path with a component .thumbnails, also
\* below a/, and collects the images of every other directory, the
\* dot-prefixed .hidden included; the listing it returns holds just these.
C25_SkipsReservedAtAnyDepth ==
    /\ CollectImages(PicDir, PicDir) = TreeImages
    /\ \A r \in CollectImages(PicDir, PicDir) :
          \A n \in 1..Len(r) : r[n] # ".thumbnails"
    /\ <<".hidden", "cat.png">> \in CollectImages(PicDir, PicDir)
    /\ listing # <<>> =>
          {listing[i] : i \in 1..Len(listing)} = TreeImages

\* C25 witness: the image a/.thumbnails/B.PNG is in the tree, the cache
\* holds the thumbnails of both pictures, and discover returned
\* .hidden/cat.png, a/cat.png and missing.jpg.
C25_Witness ==
    /\ IsFile(PicDir \o <<"a", ".thumbnails", "B.PNG">>)
    /\ IsFile(CatThumb)
    /\ IsFile(ThumbDir \o <<".hidden", "cat.png">>)
    /\ listing = << <<".hidden", "cat.png">>, CatRel, <<"missing.jpg">> >>

\* a symbolic link to a directory that points back to one of its ancestors
LinkCycle ==
    \E q \in DOMAIN fs :
        /\ fs[q].kind = "link"
        /\ IsPrefix(fs[q].data, q)

NoLinks == \A q \in DOMAIN fs : fs[q].kind # "link"

\* the times the walk has read directory d
TimesRead(d) == Cardinality({i \in 1..Len(walk.dirs) : walk.dirs[i] = d})

\* the directories of the gallery outside the thumbnail cache
WalkedDirs ==
    {q \in DOMAIN fs :
        /\ fs[q].kind = "dir"
        /\ IsPrefix(PicDir, q)
        /\ \A i \in 1..Len(q) : q[i] # SkipDirName}

\* the image files of the gallery outside the thumbnail cache
WalkedImages ==
    {q \in DOMAIN fs :
        /\ fs[q].kind = "file"
        /\ IsImageFile(q)
        /\ Parent(q) \in WalkedDirs}

\* C26 (as amended): the recursion of discover returns on every finite
\* directory tree, with or without a symbolic-link cycle.  On a tree without symbolic links it
\* reads each directory outside the thumbnail cache exactly once.  A
\* directory reached through symbolic links is read once for every path that
\* leads to it, and a link back to an ancestor is followed until the path
\* holds as many links as the operating system resolves (MaxLinks): the root
\* is then read MaxLinks + 1 times, no directory is read more often, and
\* every image of the gallery is listed once per level of the cycle.
C26_WalkReturns ==
    /\ (walk.state = "running") ~> (walk.stack = <<>>)
    /\ [](walk.state = "returned" /\ NoLinks =>
            \A d \in WalkedDirs : TimesRead(d) = 1)
    /\ [](\A d \in DOMAIN fs : TimesRead(d) <= MaxLinks + 1)
    /\ [](walk.state = "returned" /\ LinkCycle =>
            /\ TimesRead(PicDir) = MaxLinks + 1
            /\ Len(listing) = (MaxLinks + 1) * Cardinality(WalkedImages))

\* discover has returned on the tree whose link a/loop points back to the
\* root, after reading the root once per level of the cycle
C26_Witness ==
    /\ walk.state = "returned"
    /\ LinkCycle
    /\ TimesRead(PicDir) = MaxLinks + 1
    /\ <<"a", "loop", "a", "cat.png">> \in {listing[i] : i \in 1..Len(listing)}

\* C26 (as stated): on a tree with a link back to an ancestor discover never
\* returns
C26_Original == LinkCycle => walk.state # "returned"

====
